---- MODULE Spec2Model ----
(***************************************************************************)
(* Model of the Fetcher of packages/fetch (core.ts, utils.ts, types.ts):   *)
(* one call of Fetcher.request, from the merge of the instance and call    *)
(* configurations, through the attempt loop of executeRequest and the      *)
(* steps of performRequest, to the Result the call resolves to (or the     *)
(* rejection an onError interceptor causes).                               *)
(*                                                                         *)
(* An optional value (a field that may be undefined) is a sequence of      *)
(* length 0 or 1: <<>> is undefined, <<v>> is the value v.                 *)
(***************************************************************************)
EXTENDS Integers, Sequences, FiniteSets, TLC

\* ---------------------------------------------------------------- bounds
\* largest retry.count a configuration of the model carries
MaxCount == 3

\* ------------------------------------------------------- optional values
None == <<>>
Some(v) == <<v>>
IsSet(o) == o # <<>>
\* the ?? operator: o ?? d
Coalesce(o, d) == IF o = <<>> THEN d ELSE o[1]

\* b^e for e >= 0 (Math.pow on the integers the model uses)
RECURSIVE Pow(_, _)
Pow(b, e) == IF e <= 0 THEN 1 ELSE b * Pow(b, e - 1)

\* ------------------------------------------------------------ utils.ts
\* the default list of shouldRetry
defaultRetryOn == {408, 429, 500, 502, 503, 504}

\* shouldRetry(status, retryOn): codes = retryOn ?? defaultRetryOn
shouldRetry(status, retryOn) == status \in Coalesce(retryOn, defaultRetryOn)

\* a retry policy, every field optional
NoRetry == [count |-> None, delay |-> None, backoff |-> None, retryOn |-> None]

\* { ...a, ...b } on two retry policies: a field b sets wins
SpreadRetry(a, b) ==
  [count   |-> IF IsSet(b.count) THEN b.count ELSE a.count,
   delay   |-> IF IsSet(b.delay) THEN b.delay ELSE a.delay,
   backoff |-> IF IsSet(b.backoff) THEN b.backoff ELSE a.backoff,
   retryOn |-> IF IsSet(b.retryOn) THEN b.retryOn ELSE a.retryOn]

\* { ...base, ...override } on one optional field
Spread(b, o) == IF IsSet(o) THEN o ELSE b

\* An object's entries (HeadersInit, params) are a sequence of <<key, value>>
\* pairs in insertion order, its keys distinct.
KeysOf(entries) == { entries[i][1] : i \in DOMAIN entries }
ValueOf(entries, key) == entries[CHOOSE i \in DOMAIN entries : entries[i][1] = key][2]

\* { ...a, ...b } on two optional objects: the entries of a, a shared key
\* taking b's value, then the entries only b has
SpreadEntries(a, b) ==
  LET ea == Coalesce(a, <<>>)
      eb == Coalesce(b, <<>>)
  IN [i \in 1..Len(ea) |->
        IF ea[i][1] \in KeysOf(eb) THEN <<ea[i][1], ValueOf(eb, ea[i][1])>> ELSE ea[i]]
     \o SelectSeq(eb, LAMBDA e : e[1] \notin KeysOf(ea))

\* Headers normalises a header name to lower case
Lower(name) ==
  CASE name = "Content-Type" -> "content-type"
    [] name = "X-Token" -> "x-token"
    [] OTHER -> name

\* the lower-case header names in the order a Headers object lists them
HeaderOrder == <<"content-type", "x-token">>

\* a set that keeps the value a name already has
HeadersSetIfAbsent(map, name, value) ==
  [k \in DOMAIN map \cup {Lower(name)} |->
     IF k \in DOMAIN map THEN map[k] ELSE value]

\* Headers.set(name, value) on the name -> value map of a Headers object
HeadersSet(map, name, value) ==
  [k \in DOMAIN map \cup {Lower(name)} |-> IF k = Lower(name) THEN value ELSE map[k]]

\* merged.set(key, value) for each entry in turn
RECURSIVE SetEach(_, _)
SetEach(map, entries) ==
  IF entries = <<>> THEN map
  ELSE SetEach(HeadersSet(map, Head(entries)[1], Head(entries)[2]), Tail(entries))

\* the entries of a Headers object
HeadersEntries(map) ==
  LET names == SelectSeq(HeaderOrder, LAMBDA n : n \in DOMAIN map)
  IN [i \in 1..Len(names) |-> <<names[i], map[names[i]]>>]

\* mergeHeaders(...headersList): each list member is an optional HeadersInit
\* (a Headers object, an array of pairs or a plain object, all of them read
\* entry by entry); the result is a Headers object
RECURSIVE MergeInto(_, _)
MergeInto(map, headersList) ==
  IF headersList = <<>> THEN map
  ELSE MergeInto(SetEach(map, Coalesce(Head(headersList), <<>>)), Tail(headersList))

mergeHeaders(headersList) == HeadersEntries(MergeInto(<<>>, headersList))

\* a merge that spreads the two configurations and nothing more: headers,
\* params and retry of the override replace those of the base whole
mergeConfigShallow(base, override) ==
  IF override = None THEN base
  ELSE LET o == override[1] IN
    [headers           |-> Spread(base.headers, o.headers),
     params            |-> Spread(base.params, o.params),
     retry             |-> IF o.retry = NoRetry THEN base.retry ELSE o.retry,
     timeout           |-> Spread(base.timeout, o.timeout),
     validateStatus    |-> Spread(base.validateStatus, o.validateStatus),
     onRequest         |-> Spread(base.onRequest, o.onRequest),
     onResponse        |-> Spread(base.onResponse, o.onResponse),
     onError           |-> Spread(base.onError, o.onError),
     transformRequest  |-> Spread(base.transformRequest, o.transformRequest),
     transformResponse |-> Spread(base.transformResponse, o.transformResponse)]

\* mergeConfig(base, override); override is optional (request(url) alone),
\* base is the instance configuration, which the constructor always sets
mergeConfig(base, override) ==
  IF override = None THEN base
  ELSE LET o == override[1] IN
    [headers           |-> Some(mergeHeaders(<<base.headers, o.headers>>)),
     params            |-> Some(SpreadEntries(base.params, o.params)),
     retry             |-> SpreadRetry(base.retry, o.retry),
     timeout           |-> Spread(base.timeout, o.timeout),
     validateStatus    |-> Spread(base.validateStatus, o.validateStatus),
     onRequest         |-> Spread(base.onRequest, o.onRequest),
     onResponse        |-> Spread(base.onResponse, o.onResponse),
     onError           |-> Spread(base.onError, o.onError),
     transformRequest  |-> Spread(base.transformRequest, o.transformRequest),
     transformResponse |-> Spread(base.transformResponse, o.transformResponse)]

\* ------------------------------------------------------------- types.ts
\* A thrown value: kind is the class (or, for AbortError, the name of an
\* Error; Value is a thrown non-Error; Undefined is the never-assigned
\* lastError), status the optional FetchError.status, timeoutMs the optional
\* TimeoutError.timeoutMs, at the index of the attempt that raised it
\* (-1: raised outside any attempt).
Thrown(kind, msg, status, timeoutMs, at) ==
  [kind |-> kind, msg |-> msg, status |-> status, timeoutMs |-> timeoutMs, at |-> at]

\* new FetchError(message, response, status, statusText, data)
FetchError(msg, status, at) == Thrown("FetchError", msg, status, None, at)

\* new TimeoutError(message, timeoutMs): a FetchError without status
TimeoutError(timeoutMs, at) == Thrown("TimeoutError", "Request timeout", None, Some(timeoutMs), at)

\* error instanceof FetchError (TimeoutError extends FetchError)
IsFetchError(e) == e.kind \in {"FetchError", "TimeoutError"}

\* error instanceof Error
IsError(e) == e.kind \in {"FetchError", "TimeoutError", "Error", "AbortError"}

NoError == Thrown("None", "", None, None, -1)
UndefinedError == Thrown("Undefined", "undefined", None, None, -1)

\* Result<T, E>: the two shapes request builds; Null is the literal null
Null == [null |-> TRUE]
Success(response) == [success |-> TRUE, data |-> response, error |-> Null]
\* Failure leaving the error slot empty
FailureWithoutError(fetchError) == [success |-> FALSE, data |-> Null, error |-> Null]

Failure(fetchError) == [success |-> FALSE, data |-> Null, error |-> fetchError]

\* ------------------------------------------------------------- core.ts
\* Fetcher.createError: a FetchError is returned as it is, an Error is
\* wrapped with its message, anything else with String(error)
createError(error) ==
  IF IsFetchError(error) THEN error
  ELSE FetchError(error.msg, None, error.at)

\* the truthiness test of error.status in executeRequest
StatusTruthy(e) == IsSet(e.status) /\ e.status[1] # 0

\* FailsFast without the test of error.status
FailsFastNoStatusTest(e, retryOn) ==
  IsFetchError(e) /\ ~(IsSet(e.status) /\ shouldRetry(e.status[1], retryOn))

\* executeRequest, lines 128-132: the error is propagated without a retry
FailsFast(e, retryOn) ==
  IsFetchError(e) /\ StatusTruthy(e) /\ ~shouldRetry(e.status[1], retryOn)

\* RetryDelay multiplying where it should raise to the power
RetryDelayLinear(retry, attempt) ==
  Coalesce(retry.delay, 1000) * (Coalesce(retry.backoff, 1) * attempt)

\* executeRequest, lines 135-137: baseDelay * Math.pow(backoff, attempt)
RetryDelay(retry, attempt) ==
  Coalesce(retry.delay, 1000) * Pow(Coalesce(retry.backoff, 1), attempt)

\* performRequest, lines 202-208: validateStatus ?? true, then a predicate
\* (modelled by the set of statuses it accepts), true (response.ok) or false
ResponseOk(status) == status >= 200 /\ status <= 299

\* the boolean read as the verdict itself instead of as "validate or not"
IsValidBooleanIsVerdict(validateStatus, status) ==
  IF ~IsSet(validateStatus) THEN ResponseOk(status)
  ELSE IF validateStatus[1].fn THEN status \in validateStatus[1].accepts
  ELSE validateStatus[1].bool

IsValid(validateStatus, status) ==
  LET v == Coalesce(validateStatus, [fn |-> FALSE, bool |-> TRUE, accepts |-> {}]) IN
  IF v.fn THEN status \in v.accepts
  ELSE IF v.bool THEN ResponseOk(status)
  ELSE TRUE

\* performRequest, lines 249-270: what the catch block rethrows for an
\* error raised inside the try block
performRequestCatch(error, timeout, at) ==
  IF IsError(error) /\ error.kind = "AbortError"
    THEN TimeoutError(Coalesce(timeout, 0), at)
  ELSE IF IsFetchError(error) THEN error
  ELSE createError(error)

\* ------------------------------------------------- configurations drawn
\* validateStatus values: false, true, and a predicate given by the set of
\* statuses it accepts
VFalse == [fn |-> FALSE, bool |-> FALSE, accepts |-> {}]
VTrue == [fn |-> FALSE, bool |-> TRUE, accepts |-> {}]
VFn(accepts) == [fn |-> TRUE, bool |-> FALSE, accepts |-> accepts]

\* the statuses the transport answers with (0: an opaque response)
Statuses == {0, 200, 404, 503}

\* the retry policies a call passes: count unset, -1 .. MaxCount
Counts == {None} \cup {Some(c) : c \in (-1)..MaxCount}
\* <<delay, backoff>>: the default delay with a backoff, a delay with the
\* default backoff (an instance policy supplies both defaults)
Timings == {<<None, Some(2)>>, <<Some(500), None>>}
CallRetries ==
  { [count |-> c, delay |-> t[1], backoff |-> t[2], retryOn |-> r] :
    c \in Counts, t \in Timings, r \in {None, Some({404})} }

\* the retry policies an instance is built with
InstanceRetries == {NoRetry, [count |-> Some(1), delay |-> None, backoff |-> None, retryOn |-> Some({200, 503})]}

Hook == Some("hook")

\* new Fetcher(config): instance-level hooks, retry defaults
InstanceConfigs ==
  { [headers |-> None, params |-> None,
     retry |-> NoRetry, timeout |-> None, validateStatus |-> None,
     onRequest |-> h, onResponse |-> h, onError |-> e,
     transformRequest |-> None, transformResponse |-> None] :
    h \in {None, Hook}, e \in {None, Hook} }
  \cup
  { [headers |-> None, params |-> None, retry |-> r, timeout |-> None,
      validateStatus |-> IF r = NoRetry THEN None ELSE Some(VTrue),
     onRequest |-> None, onResponse |-> None, onError |-> None,
     transformRequest |-> None, transformResponse |-> None] :
    r \in InstanceRetries }

\* the config argument of request: absent, or call-level settings
CallConfigs ==
  {None} \cup
  { Some([headers |-> None, params |-> None,
          retry |-> r, timeout |-> t, validateStatus |-> v,
          onRequest |-> None, onResponse |-> None, onError |-> None,
          transformRequest |-> h, transformResponse |-> h]) :
    r \in CallRetries, t \in {None, Some(100)},
    v \in {None, Some(VFalse), Some(VFn({200, 404}))}, h \in {None, Hook} }

\* what a hook may throw on attempt at: an Error (a thrown value that is no
\* Error is handled like it), a FetchError carrying a status, an Error named
\* AbortError
HookThrows(at) ==
  { Thrown("Error", "hook failed", None, None, at),
    Thrown("FetchError", "hook failed", Some(404), None, at),
    Thrown("AbortError", "hook aborted", None, None, at) }

\* ------------------------------------------------------------------ state
VARIABLES
  config,        \* Fetcher.config, the instance configuration
  callConfig,    \* the config argument of the request call (optional)
  pc,            \* where the call is
  mergedConfig,  \* executeRequest: mergedConfig
  retryCount,    \* executeRequest: retryCount
  attempt,       \* executeRequest: the loop index
  lastError,     \* executeRequest: lastError
  thrown,        \* the error being propagated, NoError if none
  response,      \* performRequest: the transport response and the envelope
  timer,         \* performRequest: the attempt's timeout timer
  attempts,      \* number of performRequest calls so far
  netCalls,      \* number of transport calls so far
  waits,         \* the sleep(delay) calls so far, in order
  onErrorArgs,   \* the arguments of the onError calls so far, in order
  result,        \* the Result the call resolved to (optional)
  rejection,     \* what the call rejected with (optional)
  seen,          \* what has happened to the call so far: "otherOutcome" (an
                 \* attempt ended otherwise than by its timeout),
                 \* "onErrorThrew" (the onError interceptor threw)
  hooked,        \* performRequest: the hooks called in the current attempt,
                 \* in order
  callerSignal,  \* the AbortSignal the caller put in the config: live or aborted
  executors,     \* the Fetcher instances built so far, each by its config
  op,            \* the API call made last: name, target, argument, result
  sent,          \* what the last prepared attempt hands the transport (optional)
  nativeFetch,   \* the fetch the environment itself provides (optional)
  globalFetch,   \* globalThis.fetch (optional)
  originalFetch, \* polyfill.ts: originalFetch (optional)
  installs,      \* number of polyfillFetch calls so far
  boundBefore,   \* globalThis.fetch as it was before the first polyfillFetch
                 \* made since the last restoreFetch (unset when none was made)
  fetched,       \* the last call of an installed wrapper: the Result its
                 \* executor gave and how the call settled (optional)
  calls          \* the request calls in progress on one instance, by call id

\* the state of the one request call followed step by step
callLocals == <<callConfig, pc, mergedConfig, retryCount, attempt, lastError,
                thrown, response, timer, attempts, netCalls, waits,
                onErrorArgs, result, rejection, seen, hooked, callerSignal>>
callVars == <<config, callLocals>>

\* instances and their derivation, the polyfill, the interleaved calls
instanceVars == <<executors, sent>>
polyfillVars == <<nativeFetch, globalFetch, originalFetch, installs, boundBefore,
                  fetched>>
apiVars == <<instanceVars, op, polyfillVars, calls>>

vars == <<callVars, apiVars>>

\* no API call made yet
NoOp == [name |-> "none", target |-> 0, arg |-> None, body |-> [kind |-> "undefined", type |-> ""], ret |-> None]

\* the raw transport response an envelope carries, standing also for the
\* fields built from it (status text, headers, url, ok): from names who set
\* them, performRequest from the transport's response or onResponse
Raw(from, at) == [from |-> from, at |-> at]

NoResponse == [status |-> -1, at |-> -1, data |-> "none", raw |-> Raw("none", -1)]

\* the request call before it starts
CallAtStart ==
  /\ pc = "idle"
  /\ mergedConfig = config
  /\ retryCount = 0
  /\ attempt = 0
  /\ lastError = UndefinedError
  /\ thrown = NoError
  /\ response = NoResponse
  /\ timer = "none"
  /\ attempts = 0
  /\ netCalls = 0
  /\ waits = <<>>
  /\ onErrorArgs = <<>>
  /\ hooked = <<>>
  /\ callerSignal = "live"
  /\ result = None
  /\ rejection = None
  /\ seen = {}

\* nothing built, installed or called beside the request call
NoInstances == executors = <<>> /\ sent = None
NoPolyfill ==
  /\ nativeFetch = None /\ globalFetch = None /\ originalFetch = None
  /\ installs = 0 /\ boundBefore = None /\ fetched = None
NoCalls == calls = <<>>

Init ==
  /\ config \in InstanceConfigs
  /\ callConfig \in CallConfigs
  /\ CallAtStart
  /\ NoInstances /\ NoPolyfill /\ NoCalls /\ op = NoOp

\* ---------------------------------------------------------------- actions
\* request, lines 33-38, and executeRequest, lines 112-114: the call starts,
\* the configurations are merged and the retry count is read
Request ==
  /\ pc = "idle"
  /\ mergedConfig' = mergeConfig(config, callConfig)
  /\ retryCount' = Coalesce(mergedConfig'.retry.count, 0)
  /\ attempt' = 0
  /\ pc' = "loop"
  /\ UNCHANGED <<apiVars, hooked, callerSignal>>
  /\ UNCHANGED <<config, callConfig, lastError, thrown, response, timer, attempts,
                 netCalls, waits, onErrorArgs, result, rejection, seen>>

\* AfterRequestHooks with the call-level hook run first
AfterRequestHooksCallFirst(p) ==
  IF p = "start" /\ IsSet(mergedConfig.transformRequest) THEN "transformRequest"
  ELSE IF p \in {"start", "transformRequest"} /\ IsSet(config.onRequest)
    THEN "onRequest"
  ELSE "issue"

\* where performRequest goes once the request hooks before position p are done
AfterRequestHooks(p) ==
  IF p = "start" /\ IsSet(config.onRequest) THEN "onRequest"
  ELSE IF p \in {"start", "onRequest"} /\ IsSet(mergedConfig.transformRequest)
    THEN "transformRequest"
  ELSE "issue"

\* where performRequest goes once the response hooks before position p are done
AfterResponseHooks(p) ==
  IF p = "parsed" /\ IsSet(config.onResponse) THEN "onResponse"
  ELSE IF p \in {"parsed", "onResponse"} /\ IsSet(mergedConfig.transformResponse)
    THEN "transformResponse"
  ELSE "return"

\* executeRequest, line 116 with the condition true, and performRequest,
\* lines 153-171: an attempt starts
LoopEnter ==
  /\ pc = "loop"
  /\ attempt <= retryCount
  /\ attempts' = attempts + 1
  /\ response' = NoResponse
  /\ timer' = "none"
  /\ pc' = AfterRequestHooks("start")
  /\ UNCHANGED <<apiVars, callerSignal>>
  /\ hooked' = <<>>
  /\ UNCHANGED <<config, callConfig, mergedConfig, retryCount, attempt, lastError,
                 thrown, netCalls, waits, onErrorArgs, result, rejection,
                 seen>>

\* executeRequest, line 116 with the condition false, and line 143
LoopExit ==
  /\ pc = "loop"
  /\ ~(attempt <= retryCount)
  /\ thrown' = lastError
  /\ pc' = "requestCatch"
  /\ UNCHANGED <<apiVars, hooked, callerSignal>>
  /\ UNCHANGED <<config, callConfig, mergedConfig, retryCount, attempt, lastError,
                 response, timer, attempts, netCalls, waits, onErrorArgs,
                 result, rejection, seen>>

\* performRequest, lines 171-173: the instance-level onRequest settles; what
\* it throws leaves performRequest as it is (the call is outside the try)
OnRequest ==
  /\ pc = "onRequest"
  /\ hooked' = Append(hooked, "onRequest")
  /\ \/ /\ pc' = AfterRequestHooks("onRequest")
        /\ UNCHANGED <<thrown, seen>>
     \/ \E e \in HookThrows(attempt) :
          /\ thrown' = e
          /\ seen' = seen \cup {"otherOutcome"}
          /\ pc' = "execCatch"
  /\ UNCHANGED <<apiVars, callerSignal>>
  /\ UNCHANGED <<config, callConfig, mergedConfig, retryCount, attempt, lastError,
                 response, timer, attempts, netCalls, waits, onErrorArgs,
                 result, rejection>>

\* performRequest, lines 174-176: the call-level transformRequest settles
TransformRequest ==
  /\ pc = "transformRequest"
  /\ hooked' = Append(hooked, "transformRequest")
  /\ \/ /\ pc' = AfterRequestHooks("transformRequest")
        /\ UNCHANGED <<thrown, seen>>
     \/ \E e \in HookThrows(attempt) :
          /\ thrown' = e
          /\ seen' = seen \cup {"otherOutcome"}
          /\ pc' = "execCatch"
  /\ UNCHANGED <<apiVars, callerSignal>>
  /\ UNCHANGED <<config, callConfig, mergedConfig, retryCount, attempt, lastError,
                 response, timer, attempts, netCalls, waits, onErrorArgs,
                 result, rejection>>

\* IssueFetch without the timer
IssueFetchUntimed ==
  /\ pc = "issue"
  /\ timer' = "none"
  /\ netCalls' = netCalls + 1
  /\ pc' = "fetch"
  /\ UNCHANGED <<apiVars, hooked, callerSignal>>
  /\ UNCHANGED <<config, callConfig, mergedConfig, retryCount, attempt, lastError,
                 thrown, response, attempts, waits, onErrorArgs, result,
                 rejection, seen>>

\* performRequest, lines 179-194: a fresh controller, the timer armed when a
\* timeout is set, and the transport called
IssueFetch ==
  /\ pc = "issue"
  /\ timer' = IF IsSet(mergedConfig.timeout) THEN "armed" ELSE "none"
  /\ netCalls' = netCalls + 1
  /\ pc' = "fetch"
  /\ UNCHANGED <<apiVars, hooked, callerSignal>>
  /\ UNCHANGED <<config, callConfig, mergedConfig, retryCount, attempt, lastError,
                 thrown, response, attempts, waits, onErrorArgs, result,
                 rejection, seen>>

\* the timer left as it is
NotCleared(t) == t

\* clearTimeout(timeoutId) when a timer was set
Cleared(t) == IF t = "armed" THEN "cleared" ELSE t

\* performRequest, lines 188-210: the transport resolves with a response;
\* the timer is cleared and the status validated
FetchResolve ==
  /\ pc = "fetch"
  /\ \E status \in Statuses :
       /\ response' = [status |-> status, at |-> attempt, data |-> "none",
                     raw |-> Raw("transport", attempt)]
       /\ IF IsValid(mergedConfig.validateStatus, status)
            THEN pc' = "parseBody"
            ELSE pc' = "parseErrorBody"
  /\ seen' = seen \cup {"otherOutcome"}
  /\ timer' = Cleared(timer)
  /\ UNCHANGED <<apiVars, hooked, callerSignal>>
  /\ UNCHANGED <<config, callConfig, mergedConfig, retryCount, attempt, lastError,
                 thrown, attempts, netCalls, waits, onErrorArgs, result,
                 rejection>>

\* performRequest, lines 188 and 249-270: the transport rejects (a network
\* failure); the catch block clears the timer and wraps the error
FetchReject ==
  /\ pc = "fetch"
  /\ thrown' = performRequestCatch(Thrown("Error", "Network error", None, None, attempt),
                                   mergedConfig.timeout, attempt)
  /\ timer' = Cleared(timer)
  /\ seen' = seen \cup {"otherOutcome"}
  /\ pc' = "execCatch"
  /\ UNCHANGED <<apiVars, hooked, callerSignal>>
  /\ UNCHANGED <<config, callConfig, mergedConfig, retryCount, attempt, lastError,
                 response, attempts, netCalls, waits, onErrorArgs, result,
                 rejection>>

\* the options spread after the signal, the caller's signal among them
FetchSignalCallerWins(controllerSignal, signal) == signal

\* performRequest, lines 187-194: the signal handed to the transport. The
\* caller's signal is taken out of finalConfig by the destructuring, so the
\* spread of restConfig cannot put it back over controller.signal
FetchSignal(controllerSignal, signal) == controllerSignal

\* the signal handed to the transport is about to abort: the controller's
\* when the attempt's timer fires, the caller's when the caller aborted it
AbortPending(sig, t, caller) ==
  \/ sig = "controller" /\ t = "armed"
  \/ sig = "caller" /\ caller = "aborted"

\* performRequest, lines 182, 188 and 249-261: the timer fires while the
\* transport call is in flight, the controller aborts it, the transport
\* rejects with an AbortError and the catch block turns it into a TimeoutError
FetchAbort ==
  /\ pc = "fetch"
  /\ AbortPending(FetchSignal("controller", "caller"), timer, callerSignal)
  /\ timer' = IF FetchSignal("controller", "caller") = "controller" THEN "fired"
              ELSE Cleared(timer)
  /\ thrown' = performRequestCatch(Thrown("AbortError", "aborted", None, None, attempt),
                                   mergedConfig.timeout, attempt)
  /\ pc' = "execCatch"
  /\ UNCHANGED <<apiVars, hooked, callerSignal>>
  /\ UNCHANGED <<config, callConfig, mergedConfig, retryCount, attempt, lastError,
                 response, attempts, netCalls, waits, onErrorArgs, result, rejection,
                 seen>>

\* the FetchError of an invalid status, lines 218-224
StatusError(resp) == FetchError("Request failed with status", Some(resp.status), resp.at)

\* performRequest, lines 211-214: the body of an invalid response is parsed
\* per responseType; parseResponse may fail (lines 295-302)
ParseErrorBody ==
  /\ pc = "parseErrorBody"
  /\ \/ /\ thrown' = performRequestCatch(StatusError(response), mergedConfig.timeout, attempt)
        /\ pc' = "execCatch"
     \/ /\ pc' = "textFallback"
        /\ UNCHANGED thrown
  /\ UNCHANGED <<apiVars, hooked, callerSignal>>
  /\ UNCHANGED <<config, callConfig, mergedConfig, retryCount, attempt, lastError,
                 response, timer, attempts, netCalls, waits, onErrorArgs,
                 result, rejection, seen>>

\* performRequest, lines 215-224: response.text() after the failed parse; it
\* may fail too (the body was consumed), and then its error is what the try
\* block throws
TextFallback ==
  /\ pc = "textFallback"
  /\ \/ thrown' = performRequestCatch(StatusError(response), mergedConfig.timeout, attempt)
     \/ thrown' = performRequestCatch(
                    Thrown("Error", "body unusable", None, None, attempt),
                    mergedConfig.timeout, attempt)
  /\ pc' = "execCatch"
  /\ UNCHANGED <<apiVars, hooked, callerSignal>>
  /\ UNCHANGED <<config, callConfig, mergedConfig, retryCount, attempt, lastError,
                 response, timer, attempts, netCalls, waits, onErrorArgs,
                 result, rejection, seen>>

\* ParseError without the response's status
ParseErrorNoStatus(resp) == FetchError("Failed to parse response", None, resp.at)

\* the FetchError of parseResponse, lines 296-301
ParseError(resp) == FetchError("Failed to parse response", Some(resp.status), resp.at)

\* performRequest, lines 228-238: the body of a valid response is parsed and
\* the envelope built, or parseResponse throws
ParseBody ==
  /\ pc = "parseBody"
  /\ \/ /\ response' = [response EXCEPT !.data = "parsed"]
        /\ pc' = AfterResponseHooks("parsed")
        /\ UNCHANGED <<thrown, seen>>
     \/ /\ thrown' = performRequestCatch(ParseError(response), mergedConfig.timeout, attempt)
        /\ pc' = "execCatch"
        /\ UNCHANGED <<response, seen>>
  /\ UNCHANGED <<apiVars, hooked, callerSignal>>
  /\ UNCHANGED <<config, callConfig, mergedConfig, retryCount, attempt, lastError,
                 timer, attempts, netCalls, waits, onErrorArgs, result,
                 rejection>>

\* performRequest, lines 241-243: the instance-level onResponse settles
OnResponse ==
  /\ pc = "onResponse"
  /\ hooked' = Append(hooked, "onResponse")
  /\ \/ /\ response' = [response EXCEPT !.data = "intercepted",
                                        !.raw = Raw("onResponse", attempt)]
        /\ pc' = AfterResponseHooks("onResponse")
        /\ UNCHANGED thrown
     \/ \E e \in HookThrows(attempt) :
          /\ thrown' = performRequestCatch(e, mergedConfig.timeout, attempt)
          /\ pc' = "execCatch"
          /\ UNCHANGED response
  /\ UNCHANGED <<apiVars, callerSignal>>
  /\ UNCHANGED <<config, callConfig, mergedConfig, retryCount, attempt, lastError,
                 timer, attempts, netCalls, waits, onErrorArgs, result,
                 rejection, seen>>

\* the envelope rebuilt from the transport's response around the new data
TransformedRebuilt(resp) ==
  [resp EXCEPT !.data = "transformed", !.raw = Raw("transport", resp.at)]

\* performRequest, line 245: result.data is assigned what transformResponse
\* returned, the other fields of result stay
Transformed(resp) == [resp EXCEPT !.data = "transformed"]

\* performRequest, lines 244-246: the call-level transformResponse settles
TransformResponse ==
  /\ pc = "transformResponse"
  /\ hooked' = Append(hooked, "transformResponse")
  /\ \/ /\ response' = Transformed(response)
        /\ pc' = AfterResponseHooks("transformResponse")
        /\ UNCHANGED thrown
     \/ \E e \in HookThrows(attempt) :
          /\ thrown' = performRequestCatch(e, mergedConfig.timeout, attempt)
          /\ pc' = "execCatch"
          /\ UNCHANGED response
  /\ UNCHANGED <<apiVars, callerSignal>>
  /\ UNCHANGED <<config, callConfig, mergedConfig, retryCount, attempt, lastError,
                 timer, attempts, netCalls, waits, onErrorArgs, result,
                 rejection, seen>>

\* performRequest, line 248, executeRequest, line 118, request, line 39
Return ==
  /\ pc = "return"
  /\ result' = Some(Success(response))
  /\ pc' = "done"
  /\ UNCHANGED <<apiVars, hooked, callerSignal>>
  /\ UNCHANGED <<config, callConfig, mergedConfig, retryCount, attempt, lastError,
                 thrown, response, timer, attempts, netCalls, waits,
                 onErrorArgs, rejection, seen>>

\* IsLastAttempt comparing with the number of attempts, not the last index
IsLastAttemptOffByOne(a, count) == a = count + 1

\* executeRequest, line 123: attempt === retryCount
IsLastAttempt(a, count) == a = count

\* ExecCatch rethrowing lastError before it is assigned the caught error
ExecCatchStale ==
  /\ pc = "execCatch"
  /\ lastError' = thrown
  /\ IF IsLastAttempt(attempt, retryCount) \/ FailsFast(thrown, mergedConfig.retry.retryOn)
       THEN /\ pc' = "requestCatch"
            /\ thrown' = lastError
            /\ UNCHANGED waits
       ELSE /\ waits' = Append(waits, RetryDelay(mergedConfig.retry, attempt))
            /\ thrown' = NoError
            /\ pc' = "sleep"
  /\ UNCHANGED <<apiVars, hooked, callerSignal>>
  /\ UNCHANGED <<config, callConfig, mergedConfig, retryCount, attempt, response,
                 timer, attempts, netCalls, onErrorArgs, result, rejection,
                 seen>>

\* executeRequest, lines 119-139: the catch block of the attempt loop keeps
\* the error, then rethrows it (last attempt, or a status that is not
\* retried) or starts the wait before the next attempt
ExecCatch ==
  /\ pc = "execCatch"
  /\ lastError' = thrown
  /\ IF IsLastAttempt(attempt, retryCount) \/ FailsFast(thrown, mergedConfig.retry.retryOn)
       THEN /\ pc' = "requestCatch"
            /\ UNCHANGED <<thrown, waits>>
       ELSE /\ waits' = Append(waits, RetryDelay(mergedConfig.retry, attempt))
            /\ thrown' = NoError
            /\ pc' = "sleep"
  /\ UNCHANGED <<apiVars, hooked, callerSignal>>
  /\ UNCHANGED <<config, callConfig, mergedConfig, retryCount, attempt, response,
                 timer, attempts, netCalls, onErrorArgs, result, rejection,
                 seen>>

\* executeRequest, lines 139 and 116: the wait ends, attempt++
SleepDone ==
  /\ pc = "sleep"
  /\ attempt' = attempt + 1
  /\ pc' = "loop"
  /\ UNCHANGED <<apiVars, hooked, callerSignal>>
  /\ UNCHANGED <<config, callConfig, mergedConfig, retryCount, lastError, thrown,
                 response, timer, attempts, netCalls, waits, onErrorArgs,
                 result, rejection, seen>>

\* RequestCatch rethrowing what is no FetchError
RequestCatchRethrows ==
  /\ pc = "requestCatch"
  /\ IF ~IsFetchError(thrown)
       THEN /\ rejection' = Some(thrown)
            /\ pc' = "rejected"
            /\ UNCHANGED <<thrown, onErrorArgs, result>>
       ELSE /\ UNCHANGED <<thrown, rejection>>
            /\ IF IsSet(config.onError)
                 THEN /\ onErrorArgs' = Append(onErrorArgs, thrown)
                      /\ pc' = "onError"
                      /\ UNCHANGED result
                 ELSE /\ result' = Some(Failure(thrown))
                      /\ pc' = "done"
                      /\ UNCHANGED onErrorArgs
  /\ UNCHANGED <<apiVars, hooked, callerSignal>>
  /\ UNCHANGED <<config, callConfig, mergedConfig, retryCount, attempt, lastError,
                 response, timer, attempts, netCalls, waits, seen>>

\* RequestCatch passing onError the caught error, not the FetchError made of it
RequestCatchRawToOnError ==
  /\ pc = "requestCatch"
  /\ LET fetchError == IF IsFetchError(thrown) THEN thrown ELSE createError(thrown) IN
       /\ thrown' = fetchError
       /\ IF IsSet(config.onError)
            THEN /\ onErrorArgs' = Append(onErrorArgs, thrown)
                 /\ pc' = "onError"
                 /\ UNCHANGED result
            ELSE /\ result' = Some(Failure(fetchError))
                 /\ pc' = "done"
                 /\ UNCHANGED onErrorArgs
  /\ UNCHANGED <<apiVars, hooked, callerSignal>>
  /\ UNCHANGED <<config, callConfig, mergedConfig, retryCount, attempt, lastError,
                 response, timer, attempts, netCalls, waits, rejection,
                 seen>>

\* request, lines 40-48: the error becomes a FetchError; with an onError
\* interceptor it is passed to it, without one the failure Result is returned
RequestCatch ==
  /\ pc = "requestCatch"
  /\ LET fetchError == IF IsFetchError(thrown) THEN thrown ELSE createError(thrown) IN
       /\ thrown' = fetchError
       /\ IF IsSet(config.onError)
            THEN /\ onErrorArgs' = Append(onErrorArgs, fetchError)
                 /\ pc' = "onError"
                 /\ UNCHANGED result
            ELSE /\ result' = Some(Failure(fetchError))
                 /\ pc' = "done"
                 /\ UNCHANGED onErrorArgs
  /\ UNCHANGED <<apiVars, hooked, callerSignal>>
  /\ UNCHANGED <<config, callConfig, mergedConfig, retryCount, attempt, lastError,
                 response, timer, attempts, netCalls, waits, rejection,
                 seen>>

\* OnError with the interceptor's failure caught
OnErrorGuarded ==
  /\ pc = "onError"
  /\ \/ /\ result' = Some(Failure(thrown))
        /\ pc' = "done"
        /\ UNCHANGED seen
     \/ /\ result' = Some(Failure(thrown))
        /\ seen' = seen \cup {"onErrorThrew"}
        /\ pc' = "done"
  /\ UNCHANGED <<apiVars, hooked, callerSignal>>
  /\ UNCHANGED <<config, callConfig, mergedConfig, retryCount, attempt, lastError,
                 thrown, response, timer, attempts, netCalls, waits,
                 onErrorArgs, rejection>>

\* request, lines 45-48: onError settles; when it returns (whatever it
\* returns) the failure Result is returned, when it throws the call rejects
OnError ==
  /\ pc = "onError"
  /\ \/ /\ result' = Some(Failure(thrown))
        /\ pc' = "done"
        /\ UNCHANGED <<rejection, seen>>
     \/ \E e \in HookThrows(-1) :
          /\ rejection' = Some(e)
          /\ seen' = seen \cup {"onErrorThrew"}
          /\ pc' = "rejected"
          /\ UNCHANGED result
  /\ UNCHANGED <<apiVars, hooked, callerSignal>>
  /\ UNCHANGED <<config, callConfig, mergedConfig, retryCount, attempt, lastError,
                 thrown, response, timer, attempts, netCalls, waits,
                 onErrorArgs>>

Next ==
  \/ Request
  \/ LoopEnter
  \/ LoopExit
  \/ OnRequest
  \/ TransformRequest
  \/ IssueFetch
  \/ FetchResolve
  \/ FetchReject
  \/ FetchAbort
  \/ ParseErrorBody
  \/ TextFallback
  \/ ParseBody
  \/ OnResponse
  \/ TransformResponse
  \/ Return
  \/ ExecCatch
  \/ SleepDone
  \/ RequestCatch
  \/ OnError

Spec == Init /\ [][Next]_vars

\* ------------------------------------------- the caller aborts its signal
\* the same call, made with a signal in its config that the caller may abort
\* while the call is in progress; the configurations are those with every
\* hook or none, a retry count and, or not, a timeout
FewInstanceConfigs ==
  { c \in InstanceConfigs : c.retry = NoRetry /\ c.onRequest = c.onError }

FewCallConfigs ==
  {None} \cup
  { c \in CallConfigs \ {None} :
      /\ c[1].retry.count \in {Some(-1), Some(0), Some(MaxCount - 1)}
      /\ c[1].retry.delay = None /\ c[1].retry.retryOn = None
      /\ c[1].validateStatus = None
      /\ c[1].transformRequest = Hook }

FewInit ==
  /\ config \in FewInstanceConfigs
  /\ callConfig \in FewCallConfigs
  /\ CallAtStart
  /\ NoInstances /\ NoPolyfill /\ NoCalls /\ op = NoOp

\* controller.abort() called by the caller on the AbortController whose
\* signal it passed as config.signal
CallerAbort ==
  /\ pc \notin {"idle", "done", "rejected"}
  /\ callerSignal = "live"
  /\ callerSignal' = "aborted"
  /\ UNCHANGED <<apiVars, config, callConfig, pc, mergedConfig, retryCount, attempt,
                 lastError, thrown, response, timer, attempts, netCalls, waits,
                 onErrorArgs, result, rejection, seen, hooked>>

AbortNext ==
  \/ Next
  \/ CallerAbort

AbortSpec == FewInit /\ [][AbortNext]_vars

\* ------------------------------------------------- the call under fairness
\* every step of the code is taken once it can be: hooks, body reads and
\* retry waits terminate, and an armed timer fires unless it is cleared.
\* The transport is not required to complete a call by itself: FetchResolve
\* and FetchReject carry no fairness condition.
Fairness ==
  /\ WF_vars(Request) /\ WF_vars(LoopEnter) /\ WF_vars(LoopExit)
  /\ WF_vars(OnRequest) /\ WF_vars(TransformRequest) /\ WF_vars(IssueFetch)
  /\ WF_vars(FetchAbort)
  /\ WF_vars(ParseErrorBody) /\ WF_vars(TextFallback) /\ WF_vars(ParseBody)
  /\ WF_vars(OnResponse) /\ WF_vars(TransformResponse) /\ WF_vars(Return)
  /\ WF_vars(ExecCatch) /\ WF_vars(SleepDone)
  /\ WF_vars(RequestCatch) /\ WF_vars(OnError)

LiveSpec == FewInit /\ [][Next]_vars /\ Fairness

\* ------------------------------------------------------------ type check
TypeOK ==
  /\ pc \in {"idle", "loop", "onRequest", "transformRequest", "issue", "fetch",
             "parseErrorBody", "textFallback", "parseBody", "onResponse",
             "transformResponse", "return", "execCatch", "sleep", "requestCatch",
             "onError", "done", "rejected"}
  /\ attempts \in 0..(MaxCount + 1)
  /\ netCalls \in 0..attempts
  /\ Len(waits) <= MaxCount
  /\ Len(onErrorArgs) <= 1

\* ------------------------------------------------------------- properties
\* the call has settled: it resolved to a Result or rejected
Settled == pc \in {"done", "rejected"}

\* retry.count of the merged configuration, unset counting as 0
ConfiguredCount ==
  IF mergedConfig.retry.count = None THEN 0 ELSE mergedConfig.retry.count[1]

\* C1: the Result a request call resolves to has one of two shapes: success
\* with non-null data and null error, or failure with null data and a
\* non-null error; never both, never neither.
C1_ResultShape ==
  result # None =>
    LET r == result[1] IN
      \/ r.success = TRUE /\ r.data # Null /\ r.error = Null
      \/ r.success = FALSE /\ r.data = Null /\ r.error # Null

\* a call that failed after a retry and resolved to a failure Result
C1_Witness ==
  /\ pc = "done"
  /\ attempts > 1
  /\ result # None
  /\ result[1].success = FALSE
  /\ result[1].data = Null
  /\ result[1].error.kind = "FetchError"

\* C2: without an onError interceptor request never rejects; every failure
\* path, a throwing hook included, ends in a Result with success = false.
C2_NeverRejects ==
  ~IsSet(config.onError) =>
    /\ rejection = None
    /\ pc \notin {"rejected", "onError"}
    /\ (pc = "done" /\ thrown # NoError =>
          result # None /\ result[1].success = FALSE /\ result[1].error = thrown)

\* a throwing request hook, no onError: the call resolved to a failure
C2_Witness ==
  /\ ~IsSet(config.onError)
  /\ pc = "done"
  /\ netCalls = 0
  /\ result # None
  /\ result[1].success = FALSE
  /\ result[1].error.msg = "hook failed"

RetryableSet ==
  IF mergedConfig.retry.retryOn = None
    THEN {408, 429, 500, 502, 503, 504}
    ELSE mergedConfig.retry.retryOn[1]

\* the current attempt received a response with an invalid status that is
\* not in the retryable set
NonRetryableStatusReceived ==
  /\ pc \in {"parseErrorBody", "textFallback", "execCatch", "sleep"}
  /\ response.at = attempt
  /\ ~IsValid(mergedConfig.validateStatus, response.status)
  /\ response.status \notin RetryableSet

\* C4: an attempt that received a response with an invalid status that is
\* not in the retryable set is the last one of its call: the error goes to
\* request with no wait started and no further transport call.
C4_NonRetryableStatusFailsFast ==
  [][NonRetryableStatusReceived =>
       (netCalls' = netCalls /\ waits' = waits /\ attempt' = attempt)]_vars

\* C5: a call never makes more than retry.count + 1 attempts; with count
\* unset it makes exactly one; a failure of the last allowed attempt is
\* propagated to request without a wait or a further attempt, whatever it is.
C5_AttemptBound ==
  /\ [](/\ netCalls <= attempts
        /\ (pc # "idle" => attempts <= ConfiguredCount + 1)
        /\ (Settled /\ mergedConfig.retry.count = None => attempts = 1 /\ netCalls <= 1))
  /\ [][(pc = "execCatch" /\ attempt = ConfiguredCount) =>
          (pc' = "requestCatch" /\ thrown' = thrown /\ waits' = waits
             /\ netCalls' = netCalls /\ attempts' = attempts)]_vars

\* the last allowed attempt of a call with retries failed with an error that
\* would have been retried, and was propagated
C5_Witness ==
  /\ pc = "requestCatch"
  /\ ConfiguredCount >= 2
  /\ attempt = ConfiguredCount
  /\ netCalls = ConfiguredCount + 1
  /\ thrown.status = None

\* C6: the k-th wait of a call (k = 0, 1, ...) is delay * backoff^k, with
\* delay 1000 and backoff 1 when unset, and there is a wait only between two
\* attempts: none after the final attempt, none before a propagation.
C6_Waits ==
  LET delay == IF mergedConfig.retry.delay = None THEN 1000 ELSE mergedConfig.retry.delay[1]
      backoff == IF mergedConfig.retry.backoff = None THEN 1 ELSE mergedConfig.retry.backoff[1]
  IN /\ \A k \in 1..Len(waits) : waits[k] = delay * Pow(backoff, k - 1)
     /\ Len(waits) <= attempts
     /\ (pc \in {"sleep"} => Len(waits) = attempts /\ attempt < ConfiguredCount)
     /\ (pc \notin {"idle", "sleep", "loop"} /\ attempts >= 1 => Len(waits) = attempts - 1)
     /\ (pc = "loop" => Len(waits) = attempts)
     /\ (pc = "loop" /\ attempts >= 1 => attempt <= ConfiguredCount)

\* count 3, default delay, backoff 2: the waits were 1000, 2000, 4000
C6_Witness ==
  /\ Settled
  /\ ConfiguredCount = 3
  /\ mergedConfig.retry.delay = None
  /\ waits = <<1000, 2000, 4000>>
  /\ attempts = 4

\* C7: when an attempt succeeds the call returns that attempt's response at
\* once, with no further attempt or wait, and the Result shows the outcome of
\* the last attempt made only: the response or the error of that attempt.
C7_LastAttemptOnly ==
  /\ [](result # None /\ attempts >= 1 =>
          /\ Len(waits) = attempts - 1
          /\ IF result[1].success
               THEN result[1].data = response /\ response.at = attempts - 1
               ELSE result[1].error.at = attempts - 1)
  /\ [][pc = "return" =>
          (result' = Some(Success(response)) /\ pc' = "done"
             /\ netCalls' = netCalls /\ attempts' = attempts /\ waits' = waits)]_vars

\* a call that succeeded on its third attempt
C7_Witness ==
  /\ pc = "done"
  /\ result # None
  /\ result[1].success = TRUE
  /\ attempts = 3
  /\ result[1].data.at = 2
  /\ lastError.at = 1

\* C8: with an onError interceptor, a failing call invokes it exactly once,
\* after the last attempt and before the Result exists, with the error the
\* Result then carries; it is not invoked while attempts are still made, nor
\* by a successful call, and its return value does not change the Result.
C8_OnErrorOnce ==
  /\ [](/\ Len(onErrorArgs) <= 1
        /\ (pc \notin {"onError", "done", "rejected"} => onErrorArgs = <<>>)
        /\ (pc = "onError" => result = None /\ onErrorArgs = <<thrown>>)
        /\ (~IsSet(config.onError) => onErrorArgs = <<>>)
        /\ (result # None /\ result[1].success => onErrorArgs = <<>>)
        /\ (result # None /\ ~result[1].success /\ IsSet(config.onError) =>
              onErrorArgs = <<result[1].error>>))
  /\ [][onErrorArgs # <<>> =>
          (attempts' = attempts /\ netCalls' = netCalls /\ waits' = waits
             /\ onErrorArgs' = onErrorArgs)]_vars

\* a call that failed on its second attempt in a request hook (whose error
\* request wraps) and passed onError the error of its Result
C8_Witness ==
  /\ pc = "done"
  /\ IsSet(config.onError)
  /\ attempts = 2
  /\ result # None
  /\ result[1].success = FALSE
  /\ result[1].error = FetchError("hook failed", None, 1)
  /\ onErrorArgs = <<result[1].error>>

\* C9: when onError throws, the call rejects with what onError threw and
\* resolves to no Result; a call rejects in no other way.
C9_OnErrorEscapes ==
  /\ ("onErrorThrew" \in seen =>
        /\ pc = "rejected"
        /\ result = None
        /\ rejection # None
        /\ rejection[1] \in HookThrows(-1))
  /\ (pc = "rejected" \/ rejection # None =>
        /\ "onErrorThrew" \in seen
        /\ IsSet(config.onError)
        /\ Len(onErrorArgs) = 1)

\* onError threw an Error after a timed-out attempt: the call rejected
C9_Witness ==
  /\ pc = "rejected"
  /\ "onErrorThrew" \in seen
  /\ rejection = Some(Thrown("Error", "hook failed", None, None, -1))
  /\ thrown.kind = "TimeoutError"
  /\ result = None

\* the parse failure of the current attempt is the error being handled
ParseFailureCaught ==
  /\ pc = "execCatch"
  /\ response.at = attempt
  /\ thrown = FetchError("Failed to parse response", Some(response.status), attempt)

\* C10 as stated: when the body of a valid response failed to parse, the
\* failure is terminal: the error goes to request, with no wait and no
\* further attempt, whatever retry.count is.
C10_ParseFailureTerminal ==
  [][ParseFailureCaught =>
       (pc' = "requestCatch" /\ thrown' = thrown /\ netCalls' = netCalls
          /\ waits' = waits)]_vars

\* the call is past its attempt loop
PastAttempts == pc \in {"requestCatch", "onError", "done", "rejected"}

\* C10 amended: a parse failure on a valid response is reported as a parse
\* failure FetchError carrying the response's status, never by a fallback to
\* the raw text; it ends the call with no further attempt or wait when the
\* attempt is the last allowed one or the status is non-zero and outside the
\* retryable set, and is followed by a wait and another attempt otherwise.
C10_ParseFailureByStatus ==
  /\ [][pc = "parseBody" /\ pc' # pc =>
          \/ pc' \in {"onResponse", "transformResponse", "return"}
          \/ ParseFailureCaught']_vars
  /\ [][ParseFailureCaught =>
          IF \/ attempt = ConfiguredCount
             \/ response.status # 0 /\ response.status \notin RetryableSet
            THEN pc' = "requestCatch" /\ thrown' = thrown
                   /\ netCalls' = netCalls /\ waits' = waits
            ELSE pc' = "sleep" /\ Len(waits') = Len(waits) + 1]_vars
  /\ [][PastAttempts =>
          (PastAttempts' /\ netCalls' = netCalls /\ waits' = waits
             /\ attempts' = attempts)]_vars
  /\ [](pc = "done" /\ thrown.msg = "Failed to parse response" =>
          result = Some(Failure(thrown)))

\* a 200 response failed to parse on the first attempt of a call with
\* retries left, and the call ended there
C10_Witness ==
  /\ PastAttempts
  /\ thrown = FetchError("Failed to parse response", Some(200), 0)
  /\ ConfiguredCount >= 2
  /\ attempts = 1
  /\ netCalls = 1
  /\ waits = <<>>

\* ---------------------------------------------------------------- C11
\* the transport answered and performRequest judged the status
StatusJudged == pc = "fetch" /\ pc' \in {"parseBody", "parseErrorBody"}

\* C11 as stated: the status of an answered attempt is valid exactly when the
\* predicate accepts it (validateStatus a predicate), when the boolean is
\* true (validateStatus a boolean), when it is 200..299 (validateStatus unset)
C11_BooleanIsValidity ==
  [][StatusJudged =>
      LET v == mergedConfig.validateStatus
          s == response'.status
      IN (pc' = "parseBody") <=>
           IF ~IsSet(v) THEN s \in 200..299
           ELSE IF v[1].fn THEN s \in v[1].accepts
           ELSE v[1].bool]_vars

\* C11, amended: the status of an answered attempt is valid exactly when the
\* predicate accepts it (validateStatus a predicate), when it is 200..299
\* (validateStatus true or unset); with validateStatus false every status is
\* valid
C11_Validity ==
  [][StatusJudged =>
      LET v == mergedConfig.validateStatus
          s == response'.status
      IN (pc' = "parseBody") <=>
           IF ~IsSet(v) \/ v = Some(VTrue) THEN s \in 200..299
           ELSE IF v = Some(VFalse) THEN TRUE
           ELSE s \in v[1].accepts]_vars

\* a 404 judged valid under validateStatus false
C11_Witness ==
  /\ response.status = 404 /\ response.at = attempt
  /\ pc = "parseBody" /\ mergedConfig.validateStatus = Some(VFalse)

\* ---------------------------------------------------------------- C12
\* the attempt whose response was judged invalid ends
InvalidStatusAttemptEnds ==
  pc \in {"parseErrorBody", "textFallback"} /\ pc' = "execCatch"

\* C12: every attempt whose response status is judged invalid produces a
\* status-failure FetchError carrying the response's status, and the failed
\* Result of a call whose last attempt was such an attempt exposes that
\* status as error.status
C12_StatusFailureCarriesStatus ==
  /\ [][InvalidStatusAttemptEnds =>
          /\ thrown'.kind = "FetchError"
          /\ thrown'.msg = "Request failed with status"
          /\ thrown'.status = Some(response.status)]_vars
  /\ [](( /\ pc = "done"
          /\ attempts >= 1 /\ response.at = attempts - 1
          /\ ~IsValid(mergedConfig.validateStatus, response.status) )
        => /\ ~result[1].success
           /\ result[1].error.status = Some(response.status))

\* ---------------------------------------------------------------- C13
\* C13: an attempt whose timeout elapses while its network call is in flight
\* fails with a TimeoutError whose timeoutMs is the timeout in effect, and
\* an attempt fails with a TimeoutError only if its timer fired (never when
\* its network call completed before the timeout)
C13_TimeoutErrorOnlyOnTimeout ==
  /\ [][(pc = "fetch" /\ timer = "armed" /\ timer' = "fired") =>
          /\ thrown'.kind = "TimeoutError"
          /\ thrown'.timeoutMs = mergedConfig.timeout]_vars
  /\ []((pc = "execCatch" /\ thrown.kind = "TimeoutError" /\ thrown.at = attempt)
        => /\ timer = "fired"
           /\ thrown.timeoutMs = mergedConfig.timeout)

\* ---------------------------------------------------------------- C14
\* C14: a timer is pending only while the network call of the attempt that
\* armed it is in flight (it is cleared when the call completes or fails, so
\* none is pending when an attempt has ended, a wait runs, the next attempt
\* starts or the call has settled), and a timer that fires fails the
\* attempt that armed it
C14_NoPendingTimer ==
  /\ timer = "armed" => pc = "fetch"
  /\ (pc = "execCatch" /\ timer = "fired") =>
       (thrown.kind = "TimeoutError" /\ thrown.at = attempt)

\* an attempt with a timeout was answered, its timer cleared, and the call
\* waits before the next attempt
C14_Witness ==
  /\ pc = "sleep"
  /\ timer = "cleared"
  /\ IsSet(mergedConfig.timeout)

\* =============================================== interleaved request calls
\* Two request calls on one Fetcher. A call yields at its awaits only: while
\* the transport call of an attempt is pending and while it sleeps before
\* the next attempt. Everything executeRequest keeps (mergedConfig,
\* retryCount, the loop index, lastError) is a local of the call.
CallIds == {1, 2}

\* the instances the calls run on: no hooks, with and without retry defaults
SharedInstanceConfigs == { c \in InstanceConfigs : c.onRequest = None /\ c.onError = None }

\* the config argument of each call
InterleavedCallConfigs ==
  {None} \cup
  { Some([headers |-> None, params |-> None,
          retry |-> [count |-> c, delay |-> Some(500), backoff |-> Some(2), retryOn |-> None],
          timeout |-> None, validateStatus |-> None,
          onRequest |-> None, onResponse |-> None, onError |-> None,
          transformRequest |-> None, transformResponse |-> None]) :
    c \in {Some(k) : k \in (-1)..(MaxCount - 1)} }

\* a call that has not started
IdleCall(cfg) ==
  [pc |-> "idle", cfg |-> cfg, merged |-> config, retryCount |-> 0, attempt |-> 0,
   attempts |-> 0, waits |-> <<>>, lastError |-> UndefinedError, result |-> None]

InterleavedInit ==
  /\ config \in SharedInstanceConfigs
  /\ callConfig = None
  /\ CallAtStart
  /\ NoInstances /\ NoPolyfill /\ op = NoOp
  /\ \E c1 \in InterleavedCallConfigs, c2 \in InterleavedCallConfigs :
       calls = <<IdleCall(c1), IdleCall(c2)>>

\* a merge that writes the override into the instance configuration
CRequestMergesInPlace(c) ==
  /\ calls[c].pc = "idle"
  /\ config' = mergeConfig(config, calls[c].cfg)
  /\ calls' = [calls EXCEPT ![c] =
                 [@ EXCEPT !.merged = config',
                           !.retryCount = Coalesce(config'.retry.count, 0),
                           !.attempt = 0,
                           !.pc = "loop"]]
  /\ UNCHANGED <<callLocals, instanceVars, op, polyfillVars>>

\* request, lines 33-38, and executeRequest, lines 112-114, of call c
CRequest(c) ==
  /\ calls[c].pc = "idle"
  /\ LET m == mergeConfig(config, calls[c].cfg) IN
       calls' = [calls EXCEPT ![c] =
                   [@ EXCEPT !.merged = m,
                             !.retryCount = Coalesce(m.retry.count, 0),
                             !.attempt = 0,
                             !.pc = "loop"]]
  /\ UNCHANGED <<callVars, instanceVars, op, polyfillVars>>

\* executeRequest, lines 116-118: call c starts an attempt, whose transport
\* call is then pending
CPerform(c) ==
  /\ calls[c].pc = "loop"
  /\ calls[c].attempt <= calls[c].retryCount
  /\ calls' = [calls EXCEPT ![c] = [@ EXCEPT !.attempts = @ + 1, !.pc = "fetch"]]
  /\ UNCHANGED <<callVars, instanceVars, op, polyfillVars>>

\* executeRequest, line 143, and request, lines 40-48: the loop of call c
\* ends without an attempt having returned
CLoopExit(c) ==
  /\ calls[c].pc = "loop"
  /\ calls[c].attempt > calls[c].retryCount
  /\ calls' = [calls EXCEPT ![c] =
                 [@ EXCEPT !.result = Some(Failure(createError(calls[c].lastError))),
                           !.pc = "done"]]
  /\ UNCHANGED <<callVars, instanceVars, op, polyfillVars>>

\* what an attempt of index at may fail with: a network failure, an invalid
\* status
AttemptErrors(validateStatus, at) ==
  { createError(Thrown("Error", "Network error", None, None, at)) } \cup
  { StatusError([status |-> st, at |-> at, data |-> "none", raw |-> Raw("transport", at)]) :
    st \in { x \in Statuses : ~IsValid(validateStatus, x) } }

\* performRequest and executeRequest, lines 118-139, request, lines 39-48:
\* the pending attempt of call c ends; the call resolves, or records the
\* error and sleeps
CSettle(c) ==
  /\ calls[c].pc = "fetch"
  /\ LET k == calls[c] IN
       \/ \E st \in { x \in Statuses : IsValid(k.merged.validateStatus, x) } :
            calls' = [calls EXCEPT ![c] =
                        [@ EXCEPT !.result = Some(Success([status |-> st, at |-> k.attempt,
                                                           data |-> "parsed",
                                                           raw |-> Raw("transport", k.attempt)])),
                                  !.pc = "done"]]
       \/ \E e \in AttemptErrors(k.merged.validateStatus, k.attempt) :
            IF IsLastAttempt(k.attempt, k.retryCount) \/ FailsFast(e, k.merged.retry.retryOn)
              THEN calls' = [calls EXCEPT ![c] =
                               [@ EXCEPT !.lastError = e,
                                         !.result = Some(Failure(createError(e))),
                                         !.pc = "done"]]
              ELSE calls' = [calls EXCEPT ![c] =
                               [@ EXCEPT !.lastError = e,
                                         !.waits = Append(@, RetryDelay(k.merged.retry, k.attempt)),
                                         !.pc = "sleep"]]
  /\ UNCHANGED <<callVars, instanceVars, op, polyfillVars>>

\* executeRequest, lines 139 and 116: the sleep of call c ends, attempt++
CWake(c) ==
  /\ calls[c].pc = "sleep"
  /\ calls' = [calls EXCEPT ![c] = [@ EXCEPT !.attempt = @ + 1, !.pc = "loop"]]
  /\ UNCHANGED <<callVars, instanceVars, op, polyfillVars>>

InterleavedNext ==
  \E c \in CallIds :
    \/ CRequest(c)
    \/ CPerform(c)
    \/ CLoopExit(c)
    \/ CSettle(c)
    \/ CWake(c)

InterleavedSpec == InterleavedInit /\ [][InterleavedNext]_vars

\* ---------------------------------------------------------------- C15
\* the attempts a retry count allows
AllowedAttempts(count) == IF count < 0 THEN 0 ELSE count + 1

\* C15: under every interleaving of two request calls on one instance no
\* step changes the instance configuration, and what each call keeps and
\* does is fixed by its own configuration alone: its merged configuration
\* and retry count are those of the instance defaults overridden by its own
\* argument, its attempts stay within its own count, its waits follow its
\* own delay and backoff, and a failure it resolves to is that of its own
\* last attempt
C15_CallsIndependent ==
  /\ [][config' = config]_vars
  /\ [](\A c \in CallIds :
         LET k == calls[c]
             own == mergeConfig(config, k.cfg)
             ownCount == Coalesce(own.retry.count, 0)
         IN k.pc # "idle" =>
              /\ k.merged = own
              /\ k.retryCount = ownCount
              /\ k.attempts <= AllowedAttempts(ownCount)
              /\ Len(k.waits) = IF k.pc = "sleep" THEN k.attempt + 1 ELSE k.attempt
              /\ \A i \in DOMAIN k.waits : k.waits[i] = RetryDelay(own.retry, i - 1)
              /\ (k.pc = "done" /\ k.attempts > 0 /\ ~k.result[1].success)
                   => k.result[1].error.at = k.attempts - 1)

\* call 1 sleeps before its second attempt under its own retry policy while
\* call 2, started after it with another policy, has its first attempt pending
C15_Witness ==
  /\ calls[1].pc = "sleep" /\ calls[1].attempt = 0
  /\ calls[2].pc = "fetch" /\ calls[2].attempt = 1
  /\ calls[1].retryCount # calls[2].retryCount

\* ================================================ instances and requests
\* createFetch, extend and the preparation of a request's headers.
MaxExecutors == 3

\* a request body: its kind and, for a Blob, its type
Body(kind, type) == [kind |-> kind, type |-> type]
NoBody == Body("undefined", "")

\* typeof body: the kinds that are instances of a class are objects, and
\* so are arrays and null
typeOf(body) ==
  CASE body.kind \in {"object", "array", "null", "FormData", "URLSearchParams", "Blob",
                      "ArrayBuffer", "ReadableStream"} -> "object"
    [] OTHER -> body.kind

\* isPlainObject(value), utils.ts 80-82
isPlainObject(body) ==
  typeOf(body) = "object" /\ body.kind # "null" /\ body.kind # "array"

\* getContentType(body), utils.ts 116-146: the Content-Type derived from
\* the body (optional)
getContentType(body) ==
  CASE body.kind \in {"undefined", "null"} -> None
    [] body.kind = "string" -> Some("text/plain")
    [] body.kind = "FormData" -> None
    [] body.kind = "URLSearchParams" -> Some("application/x-www-form-urlencoded")
    [] body.kind = "Blob" ->
         Some(IF body.type # "" THEN body.type ELSE "application/octet-stream")
    [] body.kind = "ArrayBuffer" -> Some("application/octet-stream")
    [] isPlainObject(body) \/ body.kind = "array" -> Some("application/json")
    [] OTHER -> None

\* the string a body is turned into: by names the conversion, JSON.stringify
\* or String, and of the kind of the body converted
Text(of, by) == [kind |-> "string", type |-> "", of |-> of.kind, by |-> by]

\* serializeBody(body), utils.ts 87-111: the body handed to the transport
\* (optional)
serializeBody(body) ==
  CASE body.kind \in {"undefined", "null"} -> None
    [] body.kind \in {"string", "Blob", "ArrayBuffer", "FormData", "URLSearchParams",
                      "ReadableStream"} -> Some(body)
    [] isPlainObject(body) \/ body.kind = "array" -> Some(Text(body, "JSON.stringify"))
    [] OTHER -> Some(Text(body, "String"))

\* RequestHeaders deriving the Content-Type from the serialized body
RequestHeadersOfSerialized(cfg, body) ==
  LET serialized == serializeBody(body)
      contentType == IF IsSet(serialized) THEN getContentType(serialized[1]) ELSE None
  IN mergeHeaders(<< IF IsSet(contentType)
                       THEN Some(<< <<"Content-Type", contentType[1]>> >>)
                       ELSE None,
                     cfg.headers >>)

\* performRequest, lines 162-166: the headers of an attempt
RequestHeaders(cfg, body) ==
  LET contentType == getContentType(body) IN
    mergeHeaders(<< IF IsSet(contentType)
                      THEN Some(<< <<"Content-Type", contentType[1]>> >>)
                      ELSE None,
                    cfg.headers >>)

\* the bodies requests are made with
Bodies == { NoBody, Body("object", ""), Body("FormData", ""), Body("Blob", "") }

\* url.includes('?')
Includes(url, c) == \E i \in DOMAIN url : url[i] = c

\* the application/x-www-form-urlencoded form of a name or a value: a space
\* becomes '+', letters and digits stay
FormEncode(text) ==
  CASE text = "a b" -> "a+b"
    [] OTHER -> text

\* URLSearchParams.toString() of the entries appended: name=value pairs
\* joined by '&', names and values form-encoded
RECURSIVE QueryString(_)
QueryString(pairs) ==
  IF pairs = <<>> THEN <<>>
  ELSE LET head == <<FormEncode(pairs[1][1]), "=", FormEncode(pairs[1][2])>>
       IN IF Len(pairs) = 1 THEN head
          ELSE head \o <<"&">> \o QueryString(Tail(pairs))

\* the forEach of buildURL, utils.ts 11-15: the entries appended, in order
RECURSIVE Appended(_)
Appended(entries) ==
  IF entries = <<>> THEN <<>>
  ELSE LET e == entries[1] IN
         (IF IsSet(e[2]) THEN << <<e[1], ToString(e[2][1])>> >> ELSE <<>>)
           \o Appended(Tail(entries))

\* buildURL keeping the values that are truthy
buildURLTruthy(url, params) ==
  IF ~IsSet(params) THEN url
  ELSE LET queryString ==
             QueryString(Appended([i \in DOMAIN params[1] |->
                IF params[1][i][2] = Some(0) THEN <<params[1][i][1], None>>
                ELSE params[1][i]]))
       IN IF queryString = <<>> THEN url
          ELSE url \o <<IF Includes(url, "?") THEN "&" ELSE "?">> \o queryString

\* buildURL(url, params), utils.ts 6-22; an undefined or null value is None
buildURL(url, params) ==
  IF ~IsSet(params) THEN url
  ELSE LET queryString == QueryString(Appended(params[1]))
       IN IF queryString = <<>> THEN url
          ELSE url \o <<IF Includes(url, "?") THEN "&" ELSE "?">> \o queryString

\* the url requests are made with
RequestUrl == <<"/", "u", "?", "v", "=", "1">>

\* a configuration without hooks
PlainConfig(headers, params, retry, timeout) ==
  [headers |-> headers, params |-> params, retry |-> retry, timeout |-> timeout,
   validateStatus |-> None, onRequest |-> None, onResponse |-> None, onError |-> None,
   transformRequest |-> None, transformResponse |-> None]

\* {}
EmptyConfig == PlainConfig(None, None, NoRetry, None)

\* a Content-Type, a page, a retry count with a backoff, a timeout
PagedConfig ==
  PlainConfig(Some(<< <<"Content-Type", "text/csv">> >>),
              Some(<< <<"page", Some(1)>> >>),
              [count |-> Some(1), delay |-> None, backoff |-> Some(2), retryOn |-> None],
              Some(100))

\* a content-type and a token under other spellings, a query with page
\* explicitly undefined, a retry delay with its statuses
QueryConfig ==
  PlainConfig(Some(<< <<"content-type", "text/html">>, <<"X-Token", "a">> >>),
              Some(<< <<"q", Some(2)>>, <<"page", None>> >>),
              [count |-> None, delay |-> Some(500), backoff |-> None, retryOn |-> Some({404})],
              None)

\* a token alone
TokenConfig == PlainConfig(Some(<< <<"x-token", "b">> >>), None, NoRetry, None)

\* what createFetch is called with
CreateConfigs == {EmptyConfig, PagedConfig}

\* what extend is called with (the argument may be left out)
ExtendConfigs == {None, Some(EmptyConfig), Some(PagedConfig), Some(QueryConfig)}

\* what request is called with
RequestConfigs == {None, Some(QueryConfig), Some(TokenConfig)}

\* createFetch(config), lines 331-333: the first instance
InstancesInit ==
  /\ config = EmptyConfig
  /\ callConfig = None
  /\ CallAtStart
  /\ NoPolyfill /\ NoCalls /\ op = NoOp
  /\ sent = None
  /\ \E c \in CreateConfigs : executors = <<c>>

\* an extend that merges into the instance it is called on and returns it
ExtendInPlace(i, override) ==
  /\ i \in DOMAIN executors
  /\ Len(executors) < MaxExecutors
  /\ executors' = [executors EXCEPT ![i] = mergeConfig(executors[i], override)]
  /\ op' = [name |-> "extend", target |-> i, arg |-> override, body |-> NoBody,
            ret |-> Some(i)]
  /\ UNCHANGED <<callVars, sent, polyfillVars, calls>>

\* Fetcher.extend(config), lines 323-325, on instance i
Extend(i, override) ==
  /\ i \in DOMAIN executors
  /\ Len(executors) < MaxExecutors
  /\ executors' = Append(executors, mergeConfig(executors[i], override))
  /\ op' = [name |-> "extend", target |-> i, arg |-> override, body |-> NoBody,
            ret |-> Some(Len(executors) + 1)]
  /\ UNCHANGED <<callVars, sent, polyfillVars, calls>>

\* request on instance i up to the transport call of its first attempt:
\* executeRequest, line 112, and performRequest, lines 153-170 and 187-194
\* (no baseURL is configured)
Prepare(i, override, body) ==
  /\ i \in DOMAIN executors
  /\ LET merged == mergeConfig(executors[i], override) IN
       sent' = Some([config |-> merged,
                     url |-> buildURL(RequestUrl, merged.params),
                     body |-> serializeBody(body),
                     headers |-> RequestHeaders(merged, body)])
  /\ op' = [name |-> "request", target |-> i, arg |-> override, body |-> body,
            ret |-> None]
  /\ UNCHANGED <<callVars, executors, polyfillVars, calls>>

InstancesNext ==
  \/ \E i \in 1..MaxExecutors, o \in ExtendConfigs : Extend(i, o)
  \/ \E i \in 1..MaxExecutors, o \in RequestConfigs, b \in Bodies : Prepare(i, o, b)

InstancesSpec == InstancesInit /\ [][InstancesNext]_vars

\* =============================================== the url and the body sent
\* buildURL applied to urls and params, and the body and headers
\* performRequest assembles, for every kind of body.
MaxParams == 2

\* urls without a query, with one, ending in '?', and with a fragment
Urls ==
  { <<"/", "u">>, <<"/", "u", "?", "v", "=", "1">>, <<"/", "u", "?">>,
    <<"/", "u", "#", "f">> }

\* param names, one of them with a space, and param values: undefined or
\* null, 0, 1
ParamNames == {"page", "q", "a b"}
ParamValues == {None, Some(0), Some(1)}

\* the params objects of at most MaxParams entries: each name once, in the
\* order of insertion; and params left out
ParamsObjects ==
  {None} \cup
  { Some(p) : p \in
      UNION { { q \in [1..n -> ParamNames \X ParamValues] :
                  \A i, j \in 1..n : i # j => q[i][1] # q[j][1] } : n \in 0..MaxParams } }

\* the bodies of every kind serializeBody and getContentType tell apart
AllBodies ==
  { Body(k, "") : k \in {"undefined", "null", "string", "object", "array", "FormData",
                         "URLSearchParams", "Blob", "ArrayBuffer", "ReadableStream",
                         "number"} }
  \cup { Body("Blob", "image/png") }

UtilsInit ==
  /\ config = EmptyConfig
  /\ callConfig = None
  /\ CallAtStart
  /\ NoInstances /\ NoPolyfill /\ NoCalls /\ op = NoOp

\* buildURL(url, params), utils.ts 6-22, called
BuildURL(url, params) ==
  /\ sent' = Some([url |-> url, params |-> params, result |-> buildURL(url, params)])
  /\ op' = [name |-> "buildURL", target |-> 0, arg |-> None, body |-> NoBody, ret |-> None]
  /\ UNCHANGED <<callVars, executors, polyfillVars, calls>>

\* performRequest, lines 158-170: the body serialized and the headers
\* assembled for a configuration cfg and a body
Assemble(cfg, body) ==
  /\ sent' = Some([body |-> serializeBody(body), headers |-> RequestHeaders(cfg, body)])
  /\ op' = [name |-> "performRequest", target |-> 0, arg |-> Some(cfg), body |-> body,
            ret |-> None]
  /\ UNCHANGED <<callVars, executors, polyfillVars, calls>>

UtilsNext ==
  \/ \E url \in Urls, params \in ParamsObjects : BuildURL(url, params)
  \/ \E cfg \in {EmptyConfig, TokenConfig}, body \in AllBodies : Assemble(cfg, body)

UtilsSpec == UtilsInit /\ [][UtilsNext]_vars

\* ---------------------------------------------------------------- C16
\* the header names and the param keys in use, the retry fields
LowerNames == {"content-type", "x-token"}
ParamKeys == {"page", "q"}

\* the value a header name has in an optional HeadersInit, whatever the
\* spelling of the name; the last entry counts
HeaderValue(headers, n) ==
  LET es == Coalesce(headers, <<>>)
      at == { i \in DOMAIN es : Lower(es[i][1]) = n }
  IN IF at = {} THEN None ELSE Some(es[CHOOSE i \in at : \A j \in at : j <= i][2])

\* the entry a key has in an optional params object
ParamEntry(params, k) ==
  LET es == Coalesce(params, <<>>)
      at == { i \in DOMAIN es : es[i][1] = k }
  IN IF at = {} THEN None ELSE Some(es[CHOOSE i \in at : TRUE][2])

\* the configuration the last extend or request merged
LastMerged == IF op.name = "extend" THEN executors[op.ret[1]] ELSE sent[1].config

\* C16: merging instance defaults with the configuration given to extend or
\* to a request merges headers, params and retry key by key, the override's
\* value winning on a shared key and the keys only the base has kept; every
\* other field is the override's when the override sets it, the base's
\* otherwise
C16_MergeKeyByKey ==
  (op.name \in {"extend", "request"} /\ IsSet(op.arg)) =>
    LET base == executors[op.target]
        o == op.arg[1]
        m == LastMerged
    IN /\ \A n \in LowerNames :
            HeaderValue(m.headers, n) =
              IF IsSet(HeaderValue(o.headers, n)) THEN HeaderValue(o.headers, n)
              ELSE HeaderValue(base.headers, n)
       /\ \A k \in ParamKeys :
            ParamEntry(m.params, k) =
              IF IsSet(ParamEntry(o.params, k)) THEN ParamEntry(o.params, k)
              ELSE ParamEntry(base.params, k)
       /\ m.retry.count = (IF IsSet(o.retry.count) THEN o.retry.count ELSE base.retry.count)
       /\ m.retry.delay = (IF IsSet(o.retry.delay) THEN o.retry.delay ELSE base.retry.delay)
       /\ m.retry.backoff = (IF IsSet(o.retry.backoff) THEN o.retry.backoff ELSE base.retry.backoff)
       /\ m.retry.retryOn = (IF IsSet(o.retry.retryOn) THEN o.retry.retryOn ELSE base.retry.retryOn)
       /\ m.timeout = (IF IsSet(o.timeout) THEN o.timeout ELSE base.timeout)
       /\ m.validateStatus = (IF IsSet(o.validateStatus) THEN o.validateStatus ELSE base.validateStatus)
       /\ m.onError = (IF IsSet(o.onError) THEN o.onError ELSE base.onError)

\* an instance with a Content-Type, a page, a retry count and a timeout was
\* extended by a configuration that spells content-type otherwise, adds a
\* token and a query, and sets a retry delay
C16_Witness ==
  /\ op.name = "extend"
  /\ executors[op.target] = PagedConfig
  /\ op.arg = Some(QueryConfig)
  /\ LastMerged.headers = Some(<< <<"content-type", "text/html">>, <<"x-token", "a">> >>)
  /\ LastMerged.retry.count = Some(1)
  /\ LastMerged.retry.delay = Some(500)
  /\ LastMerged.timeout = Some(100)

\* ---------------------------------------------------------------- C17
\* C17: extend returns a new instance and leaves every existing instance,
\* the one it was called on included, with the configuration it had
C17_ExtendLeavesOriginal ==
  [][/\ \A i \in DOMAIN executors :
          i \in DOMAIN executors' /\ executors'[i] = executors[i]
     /\ (op'.name = "extend" /\ op' # op) =>
          /\ Len(executors') = Len(executors) + 1
          /\ op'.ret = Some(Len(executors'))
          /\ op'.ret # Some(op'.target)]_vars

\* the first instance was extended twice, into two instances that differ from
\* it
C17_Witness ==
  /\ Len(executors) = 3
  /\ op.name = "extend" /\ op.target = 1
  /\ executors[2] # executors[1]
  /\ executors[3] # executors[1]
  /\ executors[1] \in CreateConfigs

\* ---------------------------------------------------------------- C18
\* the first of the values that is set
FirstSet(a, b, c) == IF IsSet(a) THEN a ELSE IF IsSet(b) THEN b ELSE c

\* C18: the headers a request hands the transport name no header twice,
\* whatever the spelling, and each header has the value its last writer
\* gave it, the writers being, in order, the Content-Type derived from the
\* body, the instance headers, the call headers
C18_HeadersLastWriterWins ==
  op.name = "request" =>
    LET h == sent[1].headers
        instance == executors[op.target].headers
        call == IF IsSet(op.arg) THEN op.arg[1].headers ELSE None
        contentType == getContentType(op.body)
        derived == IF IsSet(contentType)
                     THEN Some(<< <<"Content-Type", contentType[1]>> >>)
                     ELSE None
    IN /\ \A i \in DOMAIN h, j \in DOMAIN h : i # j => Lower(h[i][1]) # Lower(h[j][1])
       /\ \A i \in DOMAIN h : Lower(h[i][1]) \in LowerNames
       /\ \A n \in LowerNames :
            HeaderValue(Some(h), n) =
              FirstSet(HeaderValue(call, n), HeaderValue(instance, n), HeaderValue(derived, n))

\* a JSON body sent through an instance that sets its own Content-Type, the
\* call adding a token
C18_Witness ==
  /\ op.name = "request"
  /\ op.body = Body("object", "")
  /\ executors[op.target].headers = Some(<< <<"Content-Type", "text/csv">> >>)
  /\ op.arg = Some(TokenConfig)
  /\ sent[1].headers = << <<"content-type", "text/csv">>, <<"x-token", "b">> >>

\* ============================================================ polyfill.ts
\* polyfillFetch, restoreFetch and isPolyfilled on the module's originalFetch
\* and on globalThis.fetch.
MaxInstalls == 3

\* the functions globalThis.fetch may be bound to: the environment's own
\* fetch, and the wrapper each polyfillFetch call creates around the Fetcher
\* it builds from its config
Native == [kind |-> "native", id |-> 0, config |-> None]
Wrapper(id, cfg) == [kind |-> "wrapper", id |-> id, config |-> cfg]

\* what polyfillFetch is called with
PolyfillConfigs == {None, Some(PagedConfig)}

\* module load, line 36, in an environment with or without a fetch of its own
PolyfillInit ==
  /\ config = EmptyConfig
  /\ callConfig = None
  /\ CallAtStart
  /\ NoInstances /\ NoCalls /\ op = NoOp
  /\ nativeFetch \in {None, Some(Native)}
  /\ globalFetch = nativeFetch
  /\ originalFetch = None
  /\ installs = 0
  /\ boundBefore = None
  /\ fetched = None

\* hasFetch(), lines 41-43: typeof globalThis.fetch === 'function'
hasFetch == IsSet(globalFetch)

\* polyfillFetch(config), lines 73-111
PolyfillFetch(cfg) ==
  /\ installs < MaxInstalls
  /\ originalFetch' = IF ~IsSet(originalFetch) /\ hasFetch THEN globalFetch ELSE originalFetch
  /\ globalFetch' = Some(Wrapper(installs + 1, cfg))
  /\ installs' = installs + 1
  /\ boundBefore' = IF IsSet(boundBefore) THEN boundBefore ELSE Some(globalFetch)
  /\ op' = [name |-> "polyfillFetch", target |-> 0, arg |-> cfg, body |-> NoBody,
            ret |-> Some(TRUE)]
  /\ UNCHANGED <<callVars, instanceVars, nativeFetch, calls, fetched>>

\* restoreFetch(), lines 125-137
RestoreFetch ==
  /\ IF ~IsSet(originalFetch)
       THEN /\ globalFetch' = None
            /\ UNCHANGED originalFetch
            /\ op' = [name |-> "restoreFetch", target |-> 0, arg |-> None, body |-> NoBody,
                      ret |-> Some(FALSE)]
       ELSE /\ globalFetch' = originalFetch
            /\ originalFetch' = None
            /\ op' = [name |-> "restoreFetch", target |-> 0, arg |-> None, body |-> NoBody,
                      ret |-> Some(TRUE)]
  /\ boundBefore' = None
  /\ UNCHANGED <<callVars, instanceVars, nativeFetch, installs, calls, fetched>>

\* isPolyfilled(), lines 144-146
isPolyfilled == originalFetch # None

IsPolyfilled ==
  /\ op' = [name |-> "isPolyfilled", target |-> 0, arg |-> None, body |-> NoBody,
            ret |-> Some(isPolyfilled)]
  /\ UNCHANGED <<callVars, instanceVars, polyfillVars, calls>>

\* a wrapper installed by polyfillFetch is what globalThis.fetch is bound to
Installed == IsSet(globalFetch) /\ globalFetch[1].kind = "wrapper"

\* the Results fetcher.request gives the wrapper: a success with its
\* envelope, or a failure for an invalid status, a timeout, a network failure
\* or a body that does not parse
ForwardedResults ==
  { Success([status |-> 200, at |-> a, data |-> "parsed", raw |-> Raw("transport", a)]) :
    a \in 0..1 }
  \cup { Failure(FetchError("HTTP Error", Some(st), 0)) : st \in {404, 503} }
  \cup { Failure(TimeoutError(100, 0)),
         Failure(createError(Thrown("Error", "Network error", None, None, 0))),
         Failure(ParseError([status |-> 200, at |-> 0])) }

\* Unwrap resolving with the envelope, not with the raw response in it
UnwrapEnvelope(r) ==
  IF r.success THEN [settled |-> "resolved", value |-> r.data]
  ELSE [settled |-> "rejected", value |-> r.error]

\* the wrapper, lines 99-107: result.data.raw returned on success,
\* result.error thrown otherwise
Unwrap(r) ==
  IF r.success THEN [settled |-> "resolved", value |-> r.data.raw]
  ELSE [settled |-> "rejected", value |-> r.error]

\* a call of the wrapper bound to globalThis.fetch, lines 82-108: the call is
\* forwarded to the request of the Fetcher the wrapper was created with and
\* the Result unwrapped
WrapperCall ==
  /\ Installed
  /\ \E r \in ForwardedResults :
       fetched' = Some([by |-> globalFetch[1].id, result |-> r, outcome |-> Unwrap(r)])
  /\ op' = [name |-> "fetch", target |-> 0, arg |-> None, body |-> NoBody, ret |-> None]
  /\ UNCHANGED <<callVars, instanceVars, nativeFetch, globalFetch, originalFetch,
                 installs, boundBefore, calls>>

PolyfillNext ==
  \/ \E cfg \in PolyfillConfigs : PolyfillFetch(cfg)
  \/ RestoreFetch
  \/ IsPolyfilled
  \/ WrapperCall

PolyfillSpec == PolyfillInit /\ [][PolyfillNext]_vars

\* ---------------------------------------------------------------- C19
\* C19: a restoreFetch that follows one or more polyfillFetch calls binds
\* globalThis.fetch to what it was bound to before the first of them (never
\* to a wrapper one of them installed), returns true and clears the stored
\* original; the original is stored only by a polyfillFetch, and only when
\* none is stored
C19_RestoreRebindsOriginal ==
  /\ [][(IsSet(boundBefore) /\ boundBefore' = None) =>
          /\ globalFetch' = boundBefore[1]
          /\ op'.ret = Some(TRUE)
          /\ originalFetch' = None]_vars
  /\ [][(originalFetch' # originalFetch /\ IsSet(originalFetch')) =>
          (op'.name = "polyfillFetch" /\ ~IsSet(originalFetch))]_vars

\* ---------------------------------------------------------------- C20
\* C20: isPolyfilled() is true exactly when the polyfill is installed, in an
\* environment with a fetch of its own and in one without, and a call of it
\* changes nothing
C20_IsPolyfilledExact ==
  /\ [](isPolyfilled <=> Installed)
  /\ [][(op'.name = "isPolyfilled" /\ op' # op) =>
          (op'.ret = Some(Installed) /\ UNCHANGED polyfillVars)]_vars

\* ---------------------------------------------------------------- C21
\* C21: a call of the function polyfillFetch installed settles by the Result
\* its executor's request gave: it resolves with the raw transport response
\* of the envelope exactly when the Result is a success, and rejects with
\* the Result's error exactly when it is a failure, an invalid status and a
\* timeout included
C21_WrapperUnwraps ==
  IsSet(fetched) =>
    LET r == fetched[1].result
        o == fetched[1].outcome
    IN /\ (o.settled = "resolved") <=> r.success
       /\ (o.settled = "rejected") <=> ~r.success
       /\ r.success => o.value = r.data.raw
       /\ ~r.success => o.value = r.error

\* the wrapper installed second resolved with the response of a retried
\* attempt
C21_Witness ==
  /\ IsSet(fetched)
  /\ fetched[1].by = 2
  /\ fetched[1].result.success
  /\ fetched[1].outcome = [settled |-> "resolved", value |-> Raw("transport", 1)]

\* ---------------------------------------------------------------- C22
\* C22: a request call cannot be cancelled from outside. Aborting the signal
\* the caller put in the config changes nothing of the call, neither its
\* position, its attempts, its pending error nor its Result, and a network
\* call in flight is ended by an abort only when the timer of its own
\* attempt fires
C22_CallerSignalUnbound ==
  /\ [][callerSignal' # callerSignal =>
          UNCHANGED <<pc, attempt, attempts, netCalls, timer, thrown, lastError,
                      response, waits, result, rejection>>]_vars
  /\ [][(pc = "fetch" /\ pc' = "execCatch" /\ thrown'.kind = "TimeoutError") =>
          (timer = "armed" /\ timer' = "fired")]_vars
  /\ [](callerSignal = "aborted" => attempts <= ConfiguredCount + 1)

\* the caller aborted its signal while the call was in progress; the call
\* went on through every allowed attempt and resolved to a success on the
\* last one
C22_Witness ==
  /\ callerSignal = "aborted"
  /\ pc = "done"
  /\ result[1].success
  /\ netCalls = MaxCount
  /\ timer = "none"

\* ---------------------------------------------------------------- C23
\* the entries of a params object whose value is neither null nor undefined,
\* in the object's order
Kept(entries) == SelectSeq(entries, LAMBDA e : IsSet(e[2]))

\* C23: buildURL(url, params) returns url unchanged when params is absent or
\* no entry has a value other than null and undefined; otherwise it returns
\* url, then '&' when url contains '?' and '?' when it does not, then one
\* name=value pair per entry whose value is neither null nor undefined, in
\* the params' order, the value coerced to a string (0 is kept, as "0"),
\* the pairs joined by '&' (names and values in their form-encoded spelling)
C23_BuildURL ==
  (IsSet(sent) /\ op.name = "buildURL") =>
    LET url == sent[1].url
        out == sent[1].result
        kept == IF IsSet(sent[1].params) THEN Kept(sent[1].params[1]) ELSE <<>>
        n == Len(url)
    IN IF kept = <<>> THEN out = url
       ELSE /\ Len(out) = n + 4 * Len(kept)
            /\ SubSeq(out, 1, n) = url
            /\ out[n + 1] = (IF \E i \in 1..n : url[i] = "?" THEN "&" ELSE "?")
            /\ \A i \in DOMAIN kept :
                 /\ out[n + 4 * i - 2] = FormEncode(kept[i][1])
                 /\ out[n + 4 * i - 1] = "="
                 /\ out[n + 4 * i] = ToString(kept[i][2][1])
                 /\ i > 1 => out[n + 4 * i - 3] = "&"

\* a url with a query, params with page undefined after q = 0: "&q=0" is
\* appended and page is left out
C23_Witness ==
  /\ IsSet(sent) /\ op.name = "buildURL"
  /\ sent[1].url = <<"/", "u", "?", "v", "=", "1">>
  /\ sent[1].params = Some(<< <<"q", Some(0)>>, <<"page", None>> >>)
  /\ sent[1].result = <<"/", "u", "?", "v", "=", "1", "&", "q", "=", "0">>

\* ---------------------------------------------------------------- C24
\* the Content-Type a body kind gives, as the claim lists them (optional)
KindContentType(kind) ==
  CASE kind = "string" -> Some("text/plain")
    [] kind = "URLSearchParams" -> Some("application/x-www-form-urlencoded")
    [] kind \in {"object", "array"} -> Some("application/json")
    [] kind \in {"FormData", "null", "undefined"} -> None

\* C24: for a string, form-data, URL-encoded, plain object, array, null or
\* undefined body, the Content-Type of the attempt is the one of the kind of
\* the original body, and the body sent is the serialized one: the JSON
\* text for an object or array, the body itself for a string, form-data or
\* URL-encoded params, none for null and undefined; an object body goes out
\* as JSON text under application/json
C24_ContentTypeOfOriginal ==
  (IsSet(sent) /\ op.name = "performRequest"
     /\ op.body.kind \in {"string", "FormData", "URLSearchParams", "object", "array",
                          "null", "undefined"}) =>
    LET kind == op.body.kind IN
      /\ HeaderValue(Some(sent[1].headers), "content-type") = KindContentType(kind)
      /\ sent[1].body =
           (CASE kind \in {"object", "array"} ->
                   Some([kind |-> "string", type |-> "", of |-> kind, by |-> "JSON.stringify"])
              [] kind \in {"string", "FormData", "URLSearchParams"} -> Some(op.body)
              [] OTHER -> None)

\* an object body sent as its JSON text with application/json, next to the
\* token of the configuration
C24_Witness ==
  /\ IsSet(sent) /\ op.name = "performRequest"
  /\ op.body = Body("object", "")
  /\ sent[1].body = Some(Text(Body("object", ""), "JSON.stringify"))
  /\ sent[1].headers = << <<"content-type", "application/json">>, <<"x-token", "b">> >>

\* ---------------------------------------------------------------- C25
\* the request hooks configured, in the order performRequest calls them
ConfiguredRequestHooks ==
  (IF IsSet(config.onRequest) THEN <<"onRequest">> ELSE <<>>)
    \o (IF IsSet(mergedConfig.transformRequest) THEN <<"transformRequest">> ELSE <<>>)

\* the request hooks called in the current attempt, in order
RequestHooked == SelectSeq(hooked, LAMBDA h : h \in {"onRequest", "transformRequest"})

\* the positions of an attempt past its request hooks
PastRequestHooks ==
  {"issue", "fetch", "parseErrorBody", "textFallback", "parseBody", "onResponse",
   "transformResponse", "return", "execCatch"}

ConfiguredResponseHooks ==
  (IF IsSet(config.onResponse) THEN <<"onResponse">> ELSE <<>>)
    \o (IF IsSet(mergedConfig.transformResponse) THEN <<"transformResponse">> ELSE <<>>)

ResponseHooked == SelectSeq(hooked, LAMBDA h : h \in {"onResponse", "transformResponse"})

\* an attempt that returns has called the configured response hooks in
\* order; the data is what the last of them left, the other fields are
\* those onResponse returned (those built from the transport's response
\* without it), so transformResponse changed the data alone
ResponseHooksInOrder ==
  /\ pc = "return" =>
       /\ ResponseHooked = ConfiguredResponseHooks
       /\ response.data =
            (IF IsSet(mergedConfig.transformResponse) THEN "transformed"
             ELSE IF IsSet(config.onResponse) THEN "intercepted" ELSE "parsed")
       /\ response.raw =
            Raw(IF IsSet(config.onResponse) THEN "onResponse" ELSE "transport", attempt)
       /\ response.at = attempt
  /\ pc = "transformResponse" =>
       response.data = (IF IsSet(config.onResponse) THEN "intercepted" ELSE "parsed")

\* C26 as stated: the response hooks run in order on an attempt with a
\* valid, parsed response, transformResponse replacing the data alone, and
\* neither hook runs on an attempt that fails
C26_NoHookOnFailedAttempt ==
  /\ ResponseHooksInOrder
  /\ pc = "execCatch" => ResponseHooked = <<>>

\* C26: the response hooks run in order on an attempt with a valid, parsed
\* response, transformResponse receiving the data onResponse left and
\* replacing the data alone; neither hook runs on an attempt that fails
\* before its body is parsed, and an attempt fails after a response hook
\* ran only because the hook called last threw (transformResponse is not
\* called when onResponse throws)
C26_ResponseHooksInOrder ==
  /\ ResponseHooksInOrder
  /\ (pc = "execCatch" /\ response.data = "none") => ResponseHooked = <<>>
  /\ (pc = "execCatch" /\ ResponseHooked # <<>>) =>
       /\ response.data # "none" /\ response.at = attempt
       /\ IsValid(mergedConfig.validateStatus, response.status)
       /\ \E e \in HookThrows(attempt) :
            thrown = performRequestCatch(e, mergedConfig.timeout, attempt)
       /\ \E n \in 1..Len(ConfiguredResponseHooks) :
            ResponseHooked = SubSeq(ConfiguredResponseHooks, 1, n)
       /\ response.data =
            (IF Len(ResponseHooked) = 2 THEN "intercepted" ELSE "parsed")

\* an attempt returns after onResponse replaced the envelope and
\* transformResponse its data
C26_Witness ==
  /\ pc = "return"
  /\ ResponseHooked = <<"onResponse", "transformResponse">>
  /\ response.data = "transformed"
  /\ response.raw = Raw("onResponse", attempt)

\* ---------------------------------------------------------------- C27
\* the error the attempt before this one ended with is what the catch block
\* of performRequest makes of an Error thrown by onResponse or
\* transformResponse; these hooks are called only once the attempt has a
\* valid status and a parsed body
ResponseHookFailedBefore ==
  /\ attempt >= 1
  /\ lastError = performRequestCatch(Thrown("Error", "hook failed", None, None, attempt - 1),
                                     mergedConfig.timeout, attempt - 1)

\* C27: within one request call, once an attempt has received a response
\* with a valid status and parsed its body, the call issues no further
\* network call, also when onResponse or transformResponse then fails and
\* retries remain
C27_NoCallAfterParsedResponse ==
  [][netCalls' > netCalls => ~ResponseHookFailedBefore]_vars

\* ---------------------------------------------------------------- C28
\* C28: for every value of retry.count the attempt loop of executeRequest
\* ends by returning an attempt's response or propagating an attempt's
\* error: the statement after the loop, which propagates lastError, is never
\* reached, and a call that has settled has made at least one attempt
C28_LoopNeverFallsThrough ==
  /\ [][pc = "loop" => pc' # "requestCatch"]_vars
  /\ [](Settled => attempts >= 1)
  /\ [](pc \in {"requestCatch", "onError", "done", "rejected"} => thrown # UndefinedError)

\* ---------------------------------------------------------------- C29
\* C29: a restoreFetch called while no original is stored (before any
\* polyfillFetch, or for the second time in a row) returns false and leaves
\* globalThis.fetch bound as it was; restoreFetch called twice after an
\* install leaves the environment's own fetch in place
C29_RestoreWithoutOriginalIsNoOp ==
  /\ [][(op'.name = "restoreFetch" /\ ~IsSet(originalFetch)) =>
          (op'.ret = Some(FALSE) /\ globalFetch' = globalFetch)]_vars
  /\ [][(op.name = "restoreFetch" /\ op'.name = "restoreFetch" /\ IsSet(nativeFetch)) =>
          globalFetch' = nativeFetch]_vars

\* ---------------------------------------------------------------- C30
\* a call in progress whose merged configuration has a timeout and a retry
\* count of 0 or more
TimedCall ==
  /\ pc # "idle"
  /\ IsSet(mergedConfig.timeout)
  /\ ConfiguredCount >= 0

====
